---------------------------- MODULE Spec2Model ----------------------------
(***************************************************************************)
(* Model of the annotation-and-report pipeline of the OralVis healthcare   *)
(* application: the submission routes of the server                        *)
(* (src/server/routes/submissions.js) over the Submission schema           *)
(* (src/server/models/Submission.js), and the annotation editor page       *)
(* (src/unnamed/part_000).                                                 *)
(***************************************************************************)
EXTENDS Integers, Sequences, FiniteSets, TLC

(***************************************************************************)
(* Bounds of the model.                                                    *)
(***************************************************************************)
\* Number of requests that reach the database or the disk (each one reads
\* Date.now() once; the clock value makes the generated file name unique).
MaxClock == 6
\* Number of annotation objects one editing session holds at a time (on the
\* canvas and in the drafts of the other slots).
MaxObjects == 2
\* Number of annotation objects of the canvases whose serialization is
\* checked.
MaxDocLen == 2

(***************************************************************************)
(* Program constants.                                                      *)
(***************************************************************************)
\* upload.array("images", 3) and req.files.length !== 3
NumSlots == 3
\* The zoom levels of the page, in hundredths (the buttons round the level to
\* two decimals): the clamp Math.max(0.2, Math.min(zoom, 5)), the step 0.1 of
\* the - and + buttons and the level 1 of the Fit button.
ZoomMin == 20
ZoomMax == 500
ZoomStep == 10
ZoomFit == 100

(***************************************************************************)
(* Values.                                                                 *)
(***************************************************************************)
\* A file path.  dir is the directory under os.tmpdir(), t the Date.now() of
\* the file name, n the index written into the name (or the position of an
\* uploaded image in req.files).
Path(dir, t, n) == [dir |-> dir, t |-> t, n |-> n]
\* null / undefined where a path is expected
NoPath == Path("", 0, 0)
\* `/uploads/reports/${filename}`
ReportUrl(p) == [p EXCEPT !.dir = "/uploads/reports"]

\* An unset Date field.
NoDate == 0

\* An object of a fabric canvas, as canvas.toJSON() writes it: its type
\* ("path", "rect", "circle", "group" or "image"), stroke colour and stroke
\* width, and for an image the URL it was loaded from.  The object on a
\* canvas has in addition the properties toJSON() does not write, selectable
\* and evented, which the page always sets together ("" in the JSON).
CanvasObject(type, stroke, strokeWidth, src) ==
    [type |-> type, stroke |-> stroke, strokeWidth |-> strokeWidth, src |-> src,
     selectable |-> ""]
AnnotationObject(type, stroke, strokeWidth) == CanvasObject(type, stroke, strokeWidth, NoPath)
\* An object on a canvas, selectable and evented ("true", fabric's default)
\* or not ("false").
Live(object, selectable) == [object EXCEPT !.selectable = selectable]
\* The base image on a canvas: img.set({ ..., selectable: false, evented: false })
ImageObject(src) == Live(CanvasObject("image", "", 0, src), "false")

\* An entry of an annotationData list: null, or the JSON of a canvas
\* ({version, objects}).
Doc(objects) == [isNull |-> FALSE, objects |-> objects]
NullDoc == [isNull |-> TRUE, objects |-> <<>>]
\* The documents the requests of the route model carry.
docA == Doc(<<AnnotationObject("rect", "#DC2626", 3)>>)
docB == Doc(<<AnnotationObject("circle", "#7C3AED", 3)>>)

\* annotationData as stored (schema type Mixed) or as sent in a request
\* body: an array, or something that is not one (undefined).
ArrayOf(list) == [isArray |-> TRUE, list |-> list]
Undefined == [isArray |-> FALSE, list |-> <<>>]

\* annotatedImageIndex of a request body: undefined, or a number.
NoIndex == -1
\* annotatedImageDataUrl of a request body: undefined, or a data URL.
NoUrl == ""
DataUrls == {"data:image/png;base64"}
\* A data URL that is not one of a PNG: the handler strips only the prefix
\* data:image/png;base64, so the bytes it writes are not an image.
NotPngUrl == "data:text/plain;base64"
\* treatmentRecommendations of a request body.
NoText == ""
Texts == {"scaling"}

VARIABLES
    db,     \* the submissions collection, restricted to the one document the
            \* model follows (every handler touches only the document that
            \* findById(req.params.id) returns): empty until it is uploaded
    disk,   \* the files under os.tmpdir(): images, annotated-images, reports
    clock,  \* Date.now()
    req,    \* the last request received
    res,    \* the response to it
    handlers \* the annotate handlers of two concurrent editing sessions, each
             \* between its request and its response

VARIABLES
    page,       \* the React state of the page that is open: the annotation
                \* page (one editing session) or the upload wizard
    canvas,     \* fabricCanvasRef.current
    imageLoads, \* the fabric.Image.fromURL callbacks of the canvas effect not
                \* yet called (in the upload wizard, the FileReader.onload
                \* callbacks not yet called)
    saving      \* the position of the saveAll call of the session

serverVars == <<db, disk, clock, req, res, handlers>>
editorVars == <<page, canvas, imageLoads, saving>>
vars == <<db, disk, clock, req, res, handlers, page, canvas, imageLoads, saving>>

Request(route, body) == [route |-> route, body |-> body]
NoRequest == Request("", <<>>)

Response(code, message) == [code |-> code, message |-> message]
NoResponse == Response(0, "")

(***************************************************************************)
(* The Submission schema: a new document.                                  *)
(***************************************************************************)
NewSubmission(originalImagePaths, now) ==
    [ originalImagePaths       |-> originalImagePaths,
      annotatedImagePaths      |-> <<>>,
      annotationData           |-> Undefined,
      reportPath               |-> NoPath,
      reportUrl                |-> NoPath,
      status                   |-> "uploaded",
      treatmentRecommendations |-> NoText,
      uploadedAt               |-> now,
      annotatedAt              |-> NoDate,
      reportGeneratedAt        |-> NoDate ]

\* A file on disk: the bytes written (a data URL payload), or for a report
\* the image drawn in each of the three slots of the page (NoPath where the
\* "Image not available" text is drawn).
File(path, data, sources) == [path |-> path, data |-> data, sources |-> sources]
\* fs.existsSync
existsSync(files, p) == \E f \in files : f.path = p
\* The bytes stored under a path.
DataAt(files, p) == (CHOOSE f \in files : f.path = p).data

(***************************************************************************)
(* The annotation page: its state when it mounts.                          *)
(***************************************************************************)
\* The colours of the palette the model uses (COLORS), the first being the
\* initial activeColor.
Colors == {"#DC2626", "#7C3AED"}
Tools == {"freehand", "rectangle", "circle", "arrow", "eraser"}

NoSubmission == [loaded |-> FALSE, originalImagePaths |-> <<>>,
                 annotatedImagePaths |-> <<>>]

\* mounted tells that the component has not been unmounted by a navigation.
MountedPage ==
    [ mounted                  |-> TRUE,
      submission               |-> NoSubmission,
      annotationData           |-> <<>>,
      currentImageIndex        |-> 0,
      treatmentRecommendations |-> NoText,
      isLoading                |-> TRUE,
      error                    |-> "",
      brushSize                |-> 3,
      activeColor              |-> "#DC2626",
      zoom                     |-> ZoomFit,
      activeTool               |-> "freehand" ]

\* A fabric canvas: its objects in z-order (first = back), isDrawingMode,
\* the colour and width of freeDrawingBrush, and the zoom of its viewport
\* (1 on a new canvas).
Canvas(objects, isDrawingMode, brushColor, brushWidth) ==
    [ exists |-> TRUE, objects |-> objects, isDrawingMode |-> isDrawingMode,
      brushColor |-> brushColor, brushWidth |-> brushWidth, zoom |-> ZoomFit ]
\* fabricCanvasRef.current = null
NoCanvas == [ exists |-> FALSE, objects |-> <<>>, isDrawingMode |-> FALSE,
              brushColor |-> "", brushWidth |-> 0, zoom |-> ZoomFit ]
\* new fabric.Canvas(...): no objects, not in drawing mode, the default brush
NewCanvas == Canvas(<<>>, FALSE, "rgb(0, 0, 0)", 1)

\* The body of a save request: annotationData, treatmentRecommendations,
\* annotatedImageDataUrl and annotatedImageIndex.
AnnotateBody(annotationData, treatmentRecommendations, dataUrl, annotatedImageIndex) ==
    [ annotationData           |-> annotationData,
      treatmentRecommendations |-> treatmentRecommendations,
      annotatedImageDataUrl    |-> dataUrl,
      annotatedImageIndex      |-> annotatedImageIndex ]
NoBody == AnnotateBody(Undefined, NoText, NoUrl, NoIndex)

\* saveAll: where the call stands ("idle" before it, "image" while it waits
\* for the fromURL callback of slot i, "post" while the save request of slot
\* i is in flight, "stuck" when the callback threw, "done" after navigate),
\* latestAnnotations, whether the canvas the pending callback draws on is
\* still fabricCanvasRef.current, the request in flight and the slots whose
\* request succeeded.
SaveAllAt(pos, i, latestAnnotations, live, body, saved) ==
    [ pos |-> pos, i |-> i, latestAnnotations |-> latestAnnotations,
      live |-> live, body |-> body, saved |-> saved ]
NotSaving == SaveAllAt("idle", 0, <<>>, FALSE, NoBody, {})

\* The editing sessions that save concurrently.
Sessions == {"A", "B"}
\* An annotate handler: "idle" before a request, "found" between
\* await Submission.findById and await submission.save() (it then holds the
\* request body and the document it has read, and stale tells that another
\* save has been stored since), "done" after its response.
\* A generate-report handler is kept the same way under the key Reporter,
\* between the await of the PDF stream and submission.save(), with the path
\* of the file it has written.
Handler(pos, body, submission, stale, response) ==
    [ pos |-> pos, body |-> body, submission |-> submission, stale |-> stale,
      response |-> response, filepath |-> NoPath ]
Reporter == "R"
NoHandlers ==
    [s \in Sessions \cup {Reporter} |->
        Handler("idle", NoBody, NewSubmission(<<>>, NoDate), FALSE, NoResponse)]

Init ==
    /\ db = <<>>
    /\ disk = {}
    /\ clock = 1
    /\ req = NoRequest
    /\ res = NoResponse
    /\ handlers = NoHandlers
    /\ page = MountedPage
    /\ canvas = NoCanvas
    /\ imageLoads = {}
    /\ saving = NotSaving

(***************************************************************************)
(* POST /upload                                                            *)
(***************************************************************************)
\* The form fields of an upload request, by the first check they fail.
FieldCases == {"valid", "missing", "bad email", "bad mobile"}
\* The files of an upload request (field "images"), in the order sent.
UploadFiles == { <<>>, <<"upper.png">>, <<"upper.png", "front.png">>,
                 <<"upper.png", "front.png", "lower.png">>,
                 <<"upper.png", "front.png", "lower.png", "extra.png">> }

\* multer's diskStorage: the files are stored in the order received, each
\* under the name fieldname-Date.now()-random.ext; req.files keeps that order.
\* (The stored files of a request the handler then rejects stay on disk;
\* nothing reads them and they are not tracked here.)
ReqFiles(files, now) ==
    [i \in 1..Len(files) |-> File(Path("images", now, i), files[i], <<>>)]

\* Mutant of originalImagePathsOf: the stored paths in reverse order.
originalImagePathsReversed(reqFiles) ==
    [i \in 1..Len(reqFiles) |-> reqFiles[Len(reqFiles) + 1 - i].path]

\* req.files.map((file) => file.path)
originalImagePathsOf(reqFiles) == [i \in 1..Len(reqFiles) |-> reqFiles[i].path]

Upload(fields, files) ==
    /\ clock <= MaxClock
    /\ db = <<>>
    /\ UNCHANGED handlers
    /\ req' = Request("upload", [fields |-> fields, files |-> files])
    /\ IF Len(files) > NumSlots
         THEN \* upload.array("images", 3): multer passes LIMIT_UNEXPECTED_FILE
              \* to the error middleware, the handler never runs
              /\ res' = Response(500, "Unexpected field")
              /\ UNCHANGED <<db, disk, clock>>
         ELSE IF fields = "missing"
         THEN /\ res' = Response(400, "Patient name, mobile number, and email are required")
              /\ UNCHANGED <<db, disk, clock>>
         ELSE IF fields = "bad email"
         THEN /\ res' = Response(400, "Please provide a valid email address")
              /\ UNCHANGED <<db, disk, clock>>
         ELSE IF fields = "bad mobile"
         THEN /\ res' = Response(400, "Please provide a valid mobile number")
              /\ UNCHANGED <<db, disk, clock>>
         ELSE IF Len(files) # NumSlots
         THEN /\ res' = Response(400, "Exactly 3 images are required")
              /\ UNCHANGED <<db, disk, clock>>
         ELSE /\ LET reqFiles == ReqFiles(files, clock) IN
                 /\ disk' = disk \cup {reqFiles[i] : i \in 1..Len(reqFiles)}
                 /\ db' = Append(db, NewSubmission(originalImagePathsOf(reqFiles), clock))
              /\ res' = Response(201, "Submission uploaded successfully")
              /\ clock' = clock + 1

(***************************************************************************)
(* POST /:id/annotate                                                      *)
(***************************************************************************)
\* req.params.id: the _id of the document the model follows.
Ids == {1}

\* Number(annotatedImageIndex) and Number.isFinite: undefined gives NaN.
isFiniteIndex(annotatedImageIndex) == annotatedImageIndex # NoIndex

\* while (paths.length <= idx) paths.push(null)   (0-based idx)
RECURSIVE PadTo(_, _)
PadTo(paths, idx) ==
    IF Len(paths) <= idx THEN PadTo(Append(paths, NoPath), idx) ELSE paths

\* Mutant of UpdatedAnnotatedImagePaths: the list is rebuilt up to the index
\* written, the entries after it are dropped.
UpdatedAnnotatedImagePathsTruncated(existing, dataUrl, annotatedImageIndex, filepath) ==
    IF dataUrl # NoUrl /\ isFiniteIndex(annotatedImageIndex)
    THEN [SubSeq(PadTo(existing, annotatedImageIndex), 1, annotatedImageIndex + 1)
             EXCEPT ![annotatedImageIndex + 1] = filepath]
    ELSE IF dataUrl # NoUrl
    THEN Append(existing, filepath)
    ELSE existing

\* updatedAnnotatedImagePaths: a copy of the stored list, with the new file
\* at idx when the index is a number, pushed at the end when it is not,
\* and unchanged when the request carries no data URL.
UpdatedAnnotatedImagePaths(existing, dataUrl, annotatedImageIndex, filepath) ==
    IF dataUrl # NoUrl /\ isFiniteIndex(annotatedImageIndex)
    THEN [PadTo(existing, annotatedImageIndex) EXCEPT ![annotatedImageIndex + 1] = filepath]
    ELSE IF dataUrl # NoUrl
    THEN Append(existing, filepath)
    ELSE existing

\* `annotated-${Date.now()}-${idx}-${random}.png`, or without the index
AnnotatedFilename(now, dataUrl, annotatedImageIndex) ==
    Path("annotated-images", now,
         IF isFiniteIndex(annotatedImageIndex) THEN annotatedImageIndex ELSE NoIndex)

\* Mutant of AnnotatedSubmission: a per-slot patch, which keeps the stored
\* document of a slot for which the request supplies null.
AnnotatedSubmissionPatched(submission, body, updated, now) ==
    LET old == submission.annotationData
        new == body.annotationData
        patched == [i \in 1..Len(new.list) |->
                       IF new.list[i] = NullDoc /\ old.isArray /\ i <= Len(old.list)
                       THEN old.list[i] ELSE new.list[i]]
    IN  [submission EXCEPT
            !.annotationData = IF new.isArray THEN ArrayOf(patched) ELSE ArrayOf(<<>>),
            !.annotatedImagePaths = updated,
            !.treatmentRecommendations = body.treatmentRecommendations,
            !.status = "annotated",
            !.annotatedAt = now]

\* Array.isArray(annotationData) ? annotationData : []
StoredAnnotationData(annotationData) ==
    IF annotationData.isArray THEN annotationData ELSE ArrayOf(<<>>)

\* The assignments to the loaded document before submission.save().
\* (annotatedImagePath, also assigned there, is not a path of the schema and
\* is not persisted.)
AnnotatedSubmission(submission, body, updated, now) ==
    [submission EXCEPT
        !.annotationData = StoredAnnotationData(body.annotationData),
        !.annotatedImagePaths = updated,
        !.treatmentRecommendations = body.treatmentRecommendations,
        !.status = "annotated",
        !.annotatedAt = now]

\* The request bodies.
AnnotationLists ==
    { <<NullDoc, NullDoc, NullDoc>>, <<docA, NullDoc, NullDoc>>,
      <<docB, NullDoc, NullDoc>>, <<NullDoc, docA, docA>>,
      <<docA, docA, docA>> }
AnnotationDataInputs == {Undefined, ArrayOf(<<>>)} \cup {ArrayOf(l) : l \in AnnotationLists}
IndexInputs == {NoIndex} \cup 0..NumSlots
\* A body without a data URL (its index is then never read), or with one
\* and any index.
AnnotateBodies ==
    [ annotationData : AnnotationDataInputs,
      treatmentRecommendations : Texts,
      annotatedImageDataUrl : {NoUrl},
      annotatedImageIndex : {NoIndex} ]
    \cup
    [ annotationData : AnnotationDataInputs,
      treatmentRecommendations : Texts,
      annotatedImageDataUrl : DataUrls,
      annotatedImageIndex : IndexInputs ]

Annotate(id, body) ==
    /\ clock <= MaxClock
    /\ UNCHANGED handlers
    /\ req' = Request("annotate", body)
    /\ IF id > Len(db)
         THEN /\ res' = Response(404, "Submission not found")
              /\ UNCHANGED <<db, disk, clock>>
         ELSE LET submission == db[id]
                  filepath == AnnotatedFilename(clock, body.annotatedImageDataUrl,
                                                body.annotatedImageIndex)
                  updated == UpdatedAnnotatedImagePaths(
                                 submission.annotatedImagePaths,
                                 body.annotatedImageDataUrl,
                                 body.annotatedImageIndex, filepath)
              IN
              /\ disk' = IF body.annotatedImageDataUrl # NoUrl
                           THEN disk \cup {File(filepath, body.annotatedImageDataUrl, <<>>)}
                           ELSE disk
              /\ db' = [db EXCEPT ![id] =
                           AnnotatedSubmission(submission, body, updated, clock)]
              /\ res' = Response(200, "Annotation saved successfully")
              /\ clock' = clock + 1

(***************************************************************************)
(* POST /:id/generate-report                                               *)
(***************************************************************************)
\* .filter(Boolean)
FilterBoolean(paths) == SelectSeq(paths, LAMBDA p : p # NoPath)
\* .slice(0, 3)
Slice3(paths) == SubSeq(paths, 1, IF Len(paths) < NumSlots THEN Len(paths) ELSE NumSlots)

\* annotatedPaths = (submission.annotatedImagePaths ...).filter(Boolean).slice(0, 3)
annotatedPathsOf(submission) == Slice3(FilterBoolean(submission.annotatedImagePaths))

\* Mutant of ReportRefusal: the count of annotated images is not checked.
ReportRefusalStatusOnly(submission) ==
    IF submission.status # "annotated"
    THEN "Submission must be annotated before generating report"
    ELSE ""

\* Mutant of ReportRefusal: the status is not checked.
ReportRefusalImagesOnly(submission) ==
    IF Len(SelectSeq(submission.annotatedImagePaths, LAMBDA p : p # NoPath)) < NumSlots
    THEN "Annotated images are required to generate the report (all three views)."
    ELSE ""

\* The precondition before any output: status, then the three rasters.
ReportRefusal(submission) ==
    IF submission.status # "annotated"
    THEN "Submission must be annotated before generating report"
    ELSE IF Len(annotatedPathsOf(submission)) < NumSlots
    THEN "Annotated images are required to generate the report (all three views)."
    ELSE ""

\* doc.image(img, ...) draws the bytes of a PNG and throws on other bytes
Drawable(data) == data # NotPngUrl

\* Mutant of ReportSources: every path is drawn, whatever the disk holds.
ReportSourcesUnchecked(annotatedPaths, files) ==
    [i \in 1..NumSlots |->
        IF i <= Len(annotatedPaths) THEN annotatedPaths[i] ELSE NoPath]

\* The image drawn at each position of the report:
\* sources = [0, 1, 2].map(i => annotatedPaths[i] && fs.existsSync(...) ? ... : null),
\* and "Image not available" is drawn where the source is null or doc.image
\* throws.
ReportSources(annotatedPaths, files) ==
    [i \in 1..NumSlots |->
        IF /\ i <= Len(annotatedPaths)
           /\ existsSync(files, annotatedPaths[i])
           /\ Drawable(DataAt(files, annotatedPaths[i]))
        THEN annotatedPaths[i] ELSE NoPath]

\* Mutant of ReportedSubmission: the report also consumes the annotated
\* rasters, whose refs are cleared.
ReportedSubmissionConsuming(submission, filepath, now) ==
    [submission EXCEPT
        !.reportPath = filepath,
        !.reportUrl = ReportUrl(filepath),
        !.status = "reported",
        !.reportGeneratedAt = now,
        !.annotatedImagePaths = <<>>]

\* The assignments to the loaded document after the PDF stream has finished.
ReportedSubmission(submission, filepath, now) ==
    [submission EXCEPT
        !.reportPath = filepath,
        !.reportUrl = ReportUrl(filepath),
        !.status = "reported",
        !.reportGeneratedAt = now]

GenerateReport(id) ==
    /\ clock <= MaxClock
    /\ UNCHANGED handlers
    /\ req' = Request("generate-report", <<>>)
    /\ IF id > Len(db)
         THEN /\ res' = Response(404, "Submission not found")
              /\ UNCHANGED <<db, disk, clock>>
         ELSE IF ReportRefusal(db[id]) # ""
         THEN /\ res' = Response(400, ReportRefusal(db[id]))
              /\ UNCHANGED <<db, disk, clock>>
         ELSE LET submission == db[id]
                  filepath == Path("reports", clock, 0)
                  sources == ReportSources(annotatedPathsOf(submission), disk)
              IN
              /\ disk' = disk \cup {File(filepath, "pdf", sources)}
              /\ db' = [db EXCEPT ![id] = ReportedSubmission(submission, filepath, clock)]
              /\ res' = Response(200, "Report generated successfully")
              /\ clock' = clock + 1

\* The requests of any client of the routes; no annotation page is open.
Next ==
    \/ \E fields \in FieldCases, files \in UploadFiles :
           Upload(fields, files) /\ UNCHANGED editorVars
    \/ \E id \in Ids, body \in AnnotateBodies :
           Annotate(id, body) /\ UNCHANGED editorVars
    \/ \E id \in Ids :
           GenerateReport(id) /\ UNCHANGED editorVars

Spec == Init /\ [][Next]_vars

\* The files under os.tmpdir() are not kept by the application: an annotated
\* raster is removed from the disk (a cleanup of the temporary directory).
RemoveFile(f) ==
    /\ f \in disk
    /\ f.path.dir = "annotated-images"
    /\ disk' = disk \ {f}
    /\ UNCHANGED <<db, clock, req, res, handlers, editorVars>>

\* The saves of the three slots, each with a raster that is a PNG or is not
\* one, and the report request, while raster files disappear.
RasterBodies ==
    { AnnotateBody(ArrayOf(<<docA, docA, docA>>), "scaling", dataUrl, i) :
          dataUrl \in DataUrls \cup {NotPngUrl}, i \in 0..(NumSlots - 1) }

ReportNext ==
    \/ Upload("valid", <<"upper.png", "front.png", "lower.png">>) /\ UNCHANGED editorVars
    \/ \E id \in Ids, body \in RasterBodies :
           Annotate(id, body) /\ UNCHANGED editorVars
    \/ \E f \in disk : RemoveFile(f)
    \/ \E id \in Ids :
           GenerateReport(id) /\ UNCHANGED editorVars

ReportSpec == Init /\ [][ReportNext]_vars

\* The saves that patch the submission: each replaces the documents by one
\* of two arrays, and carries no raster, or a raster with any index or with
\* none; and the report request.
PatchBodies ==
    [ annotationData : {ArrayOf(<<docA, docA, docA>>), ArrayOf(<<docB, NullDoc, NullDoc>>)},
      treatmentRecommendations : Texts,
      annotatedImageDataUrl : {NoUrl},
      annotatedImageIndex : {NoIndex} ]
    \cup
    [ annotationData : {ArrayOf(<<docA, docA, docA>>), ArrayOf(<<docB, NullDoc, NullDoc>>)},
      treatmentRecommendations : Texts,
      annotatedImageDataUrl : DataUrls,
      annotatedImageIndex : IndexInputs ]

PatchNext ==
    \/ Upload("valid", <<"upper.png", "front.png", "lower.png">>) /\ UNCHANGED editorVars
    \/ \E id \in Ids, body \in PatchBodies :
           Annotate(id, body) /\ UNCHANGED editorVars
    \/ \E id \in Ids :
           GenerateReport(id) /\ UNCHANGED editorVars

PatchSpec == Init /\ [][PatchNext]_vars

(***************************************************************************)
(* The annotation page (src/unnamed/part_000).                             *)
(***************************************************************************)
\* GET /:id maps the stored paths to `/uploads/<dir>/${basename}`.
UrlOf(p) == [p EXCEPT !.dir = "/uploads/" \o p.dir]
\* getFileUrl: '' for no path, else API_BASE_URL + path
getFileUrl(p) == IF p = NoPath THEN NoPath ELSE [p EXCEPT !.dir = "http://localhost:3000" \o p.dir]

\* data.submission of the response to getSubmission(id)
SubmissionWithUrls(stored) ==
    [ loaded |-> TRUE,
      originalImagePaths |->
          [i \in 1..Len(FilterBoolean(stored.originalImagePaths)) |->
              UrlOf(FilterBoolean(stored.originalImagePaths)[i])],
      annotatedImagePaths |->
          [i \in 1..Len(FilterBoolean(stored.annotatedImagePaths)) |->
              UrlOf(FilterBoolean(stored.annotatedImagePaths)[i])] ]

\* sub.annotationData || Array(count).fill(null), count = the number of originals or 1
InitialAnnotationData(stored) ==
    IF stored.annotationData.isArray
    THEN stored.annotationData.list
    ELSE LET n == Len(FilterBoolean(stored.originalImagePaths))
         IN  [i \in 1..(IF n = 0 THEN 1 ELSE n) |-> NullDoc]

\* list[i] of a JavaScript array (0-based): undefined, read as null, past its end
At(list, i) == IF i + 1 <= Len(list) THEN list[i + 1] ELSE NullDoc
\* next[i] = value on a copy of a JavaScript array: a hole left before i reads as null
RECURSIVE PadDocs(_, _)
PadDocs(list, i) == IF Len(list) <= i THEN PadDocs(Append(list, NullDoc), i) ELSE list
AssignAt(list, i, value) == [PadDocs(list, i) EXCEPT ![i + 1] = value]

\* object.toObject(): the properties fabric serializes
toObject(object) == [object EXCEPT !.selectable = ""]
\* canvas.toJSON(): { version, objects: the toObject() of each object in order }
toJSON(cv) == Doc([i \in 1..Len(cv.objects) |-> toObject(cv.objects[i])])
\* fabric.util.enlivenObjects: an object of the class the type names, with
\* the serialized properties and fabric's defaults for the others
enlivenObjects(objects) == [i \in 1..Len(objects) |-> Live(objects[i], "true")]

\* Mutant of stripImagesFromJSON: the JSON is returned as it is.
stripNothingFromJSON(json) == json

\* stripImagesFromJSON: null stays null; the objects of type image are dropped
stripImagesFromJSON(json) ==
    IF json.isNull THEN json
    ELSE Doc(SelectSeq(json.objects, LAMBDA o : o.type # "image"))

\* addAnnotations(canvas, json): the non-image objects of json, enlivened,
\* added on top in their order
addAnnotations(cv, json) ==
    IF ~cv.exists \/ json.isNull THEN cv
    ELSE [cv EXCEPT !.objects = @ \o enlivenObjects(stripImagesFromJSON(json).objects)]

\* A pending fabric.Image.fromURL callback of the canvas effect, with what its
\* closure holds: the canvas it was created for (live while that canvas is
\* fabricCanvasRef.current), the image URL, annotationData[currentImageIndex],
\* activeColor and brushSize of the render that ran the effect.
ImageLoad(url, annotations, activeColor, brushSize) ==
    [ live |-> TRUE, url |-> url, annotations |-> annotations,
      activeColor |-> activeColor, brushSize |-> brushSize ]
\* A callback whose canvas has been disposed of: it changes no live canvas.
StaleLoad == [ live |-> FALSE, url |-> NoPath, annotations |-> NullDoc,
               activeColor |-> "", brushSize |-> 0 ]

\* The canvas effect (deps submission, currentImageIndex, isLoading) for the
\* page state pg: the old canvas is disposed of, a new one is created and the
\* base image of the current slot is requested.
CanvasEffectLoads(pg, loads) ==
    LET originals == pg.submission.originalImagePaths
        basePath == IF pg.currentImageIndex + 1 <= Len(originals)
                    THEN originals[pg.currentImageIndex + 1]
                    ELSE IF Len(originals) > 0 THEN originals[1] ELSE NoPath
    IN  {StaleLoad : l \in loads} \cup
        { ImageLoad(getFileUrl(basePath), At(pg.annotationData, pg.currentImageIndex),
                    pg.activeColor, pg.brushSize) }

\* The fromURL callback: the image is added and sent to the back, the slot's
\* saved annotations are added, and drawing mode is switched on with the
\* colour and width the closure holds.
ImageLoadedCanvas(cv, l) ==
    LET withImage == [cv EXCEPT !.objects = <<ImageObject(l.url)>> \o @]
        withAnnotations == addAnnotations(withImage, l.annotations)
    IN  [withAnnotations EXCEPT !.isDrawingMode = TRUE,
                                !.brushColor = l.activeColor,
                                !.brushWidth = l.brushSize]

\* Math.max(0.2, Math.min(zoom, 5))
ClampZoom(z) ==
    LET m == IF z < ZoomMax THEN z ELSE ZoomMax
    IN  IF m > ZoomMin THEN m ELSE ZoomMin

\* The tool effect (deps brushSize, activeColor, zoom, activeTool): the
\* drawing mode and the brush of the active tool, then
\* canvas.zoomToPoint(center, z) with the clamped zoom.
ToolEffect(cv, pg) ==
    IF ~cv.exists THEN cv
    ELSE LET tooled ==
                 IF pg.activeTool = "freehand"
                 THEN [cv EXCEPT !.isDrawingMode = TRUE, !.brushColor = pg.activeColor,
                                 !.brushWidth = pg.brushSize]
                 ELSE IF pg.activeTool = "eraser"
                 THEN [cv EXCEPT !.isDrawingMode = TRUE, !.brushColor = "#FFFFFF",
                                 !.brushWidth = IF pg.brushSize + 6 > 10
                                                THEN pg.brushSize + 6 ELSE 10]
                 ELSE [cv EXCEPT !.isDrawingMode = FALSE]
         IN  [tooled EXCEPT !.zoom = ClampZoom(pg.zoom)]

\* The page shows the editor (not the spinner, not the load error).
Ready ==
    page.mounted /\ ~page.isLoading /\ page.submission.loaded /\ saving.pos # "done"

\* The annotation objects the session holds: those on the canvas, those a
\* pending image callback will add to it, and those of the drafts of the
\* other slots.
AnnotationsOn(cv) == SelectSeq(cv.objects, LAMBDA o : o.type # "image")
\* The image objects of a canvas.
ImagesOn(cv) == SelectSeq(cv.objects, LAMBDA o : o.type = "image")
PendingObjects ==
    IF \E l \in imageLoads : l.live
    THEN Len((CHOOSE l \in imageLoads : l.live).annotations.objects)
    ELSE 0
RECURSIVE DraftObjects(_, _, _)
DraftObjects(list, k, except) ==
    IF k > Len(list) THEN 0
    ELSE (IF k = except + 1 THEN 0 ELSE Len(list[k].objects))
         + DraftObjects(list, k + 1, except)
ObjectCount ==
    Len(AnnotationsOn(canvas)) + PendingObjects
        + DraftObjects(page.annotationData, 1, page.currentImageIndex)

\* The load effect: getSubmission(id) settles.
LoadSubmission(ok) ==
    /\ page.isLoading
    /\ db # <<>>
    /\ IF ok
         THEN LET pg == [page EXCEPT
                            !.submission = SubmissionWithUrls(db[1]),
                            !.treatmentRecommendations = db[1].treatmentRecommendations,
                            !.annotationData = InitialAnnotationData(db[1]),
                            !.isLoading = FALSE]
              IN  /\ page' = pg
                  /\ canvas' = NewCanvas
                  /\ imageLoads' = CanvasEffectLoads(pg, imageLoads)
         ELSE /\ page' = [page EXCEPT !.error = "Failed to load submission data.",
                                      !.isLoading = FALSE]
              /\ UNCHANGED <<canvas, imageLoads>>
    /\ UNCHANGED <<saving, serverVars>>

\* A pending image callback is called: on its canvas if that one is still
\* the current one; setZoom(1) in any case while the page is mounted, and
\* the tool effect then runs if the zoom has changed.
ImageLoaded(l) ==
    /\ l \in imageLoads
    /\ imageLoads' = imageLoads \ {l}
    /\ LET loaded == IF l.live THEN ImageLoadedCanvas(canvas, l) ELSE canvas
           pg == IF saving.pos = "done" \/ ~page.mounted
                 THEN page ELSE [page EXCEPT !.zoom = ZoomFit]
       IN  /\ page' = pg
           /\ canvas' = IF pg # page THEN ToolEffect(loaded, pg) ELSE loaded
    /\ UNCHANGED <<saving, serverVars>>

\* The Freehand and Eraser buttons.
SetActiveTool(tool) ==
    /\ Ready
    /\ tool \in {"freehand", "eraser"}
    /\ page' = [page EXCEPT !.activeTool = tool]
    /\ canvas' = IF page' # page THEN ToolEffect(canvas, page') ELSE canvas
    /\ UNCHANGED <<imageLoads, saving, serverVars>>

\* A colour button.
SetActiveColor(color) ==
    /\ Ready
    /\ page' = [page EXCEPT !.activeColor = color]
    /\ canvas' = IF page' # page THEN ToolEffect(canvas, page') ELSE canvas
    /\ UNCHANGED <<imageLoads, saving, serverVars>>

\* addShape(shape): a default-sized shape in the active colour at the centre.
addShape(cv, shape, activeColor) ==
    IF ~cv.exists THEN cv
    ELSE IF shape = "rectangle"
    THEN [cv EXCEPT !.objects = Append(@, Live(AnnotationObject("rect", activeColor, 3), "true"))]
    ELSE IF shape = "circle"
    THEN [cv EXCEPT !.objects = Append(@, Live(AnnotationObject("circle", activeColor, 3), "true"))]
    ELSE IF shape = "arrow"
    THEN [cv EXCEPT !.objects = Append(@, Live(AnnotationObject("group", activeColor, 3), "true"))]
    ELSE cv

\* The Rectangle, Circle and Arrow buttons: setActiveTool(shape); addShape(shape).
ShapeButton(shape) ==
    /\ Ready
    /\ shape \in {"rectangle", "circle", "arrow"}
    /\ ObjectCount < MaxObjects
    /\ page' = [page EXCEPT !.activeTool = shape]
    /\ LET added == addShape(canvas, shape, page.activeColor)
       IN  canvas' = IF page' # page THEN ToolEffect(added, page') ELSE added
    /\ UNCHANGED <<imageLoads, saving, serverVars>>

\* A stroke drawn on the canvas while it is in drawing mode: fabric adds a
\* path with the colour and width of freeDrawingBrush.
CaptureStroke ==
    /\ Ready
    /\ canvas.exists /\ canvas.isDrawingMode
    /\ ObjectCount < MaxObjects
    /\ canvas' = [canvas EXCEPT !.objects =
                     Append(@, Live(AnnotationObject("path", canvas.brushColor,
                                                     canvas.brushWidth), "true"))]
    /\ UNCHANGED <<page, imageLoads, saving, serverVars>>

\* The Undo button: if (objs.length > 1) c.remove(objs[objs.length - 1])
UndoCanvas(cv) ==
    IF ~cv.exists THEN cv
    ELSE IF Len(cv.objects) > 1
    THEN [cv EXCEPT !.objects = SubSeq(@, 1, Len(@) - 1)]
    ELSE cv

Undo ==
    /\ Ready
    /\ canvas' = UndoCanvas(canvas)
    /\ UNCHANGED <<page, imageLoads, saving, serverVars>>

\* The Clear button: every object that is not an image is removed.
ClearCanvas(cv) ==
    IF ~cv.exists THEN cv
    ELSE [cv EXCEPT !.objects = SelectSeq(@, LAMBDA o : o.type = "image")]

Clear ==
    /\ Ready
    /\ canvas' = ClearCanvas(canvas)
    /\ UNCHANGED <<page, imageLoads, saving, serverVars>>

\* Mutant of persistLocalState: the draft is not written.
persistLocalStateSkipped(cv, annotationData, currentImageIndex) == annotationData

\* Mutant of persistLocalState: the canvas JSON is stored with its image.
persistLocalStateWithImage(cv, annotationData, currentImageIndex) ==
    IF ~cv.exists THEN annotationData
    ELSE AssignAt(annotationData, currentImageIndex, toJSON(cv))

\* persistLocalState: the next annotationData, which is the old one when
\* there is no canvas.
persistLocalState(cv, annotationData, currentImageIndex) ==
    IF ~cv.exists THEN annotationData
    ELSE AssignAt(annotationData, currentImageIndex, stripImagesFromJSON(toJSON(cv)))

\* The slots that have a thumbnail button: imagePaths.
ImageButtons ==
    LET a == Len(page.submission.originalImagePaths)
        b == Len(page.submission.annotatedImagePaths)
    IN  0..((IF a > b THEN a ELSE b) - 1)

\* switchImage(i): nothing for the current slot; else the draft is flushed
\* and the index set, and the canvas effect runs for the new index.
SwitchImage(i) ==
    /\ Ready
    /\ i \in ImageButtons
    /\ i # page.currentImageIndex
    /\ LET next == persistLocalState(canvas, page.annotationData, page.currentImageIndex)
           pg == [page EXCEPT !.annotationData = next, !.currentImageIndex = i]
       IN  /\ page' = pg
           /\ canvas' = NewCanvas
           /\ imageLoads' = CanvasEffectLoads(pg, imageLoads)
           \* the canvas a pending saveAll callback holds has been disposed of
           /\ saving' = [saving EXCEPT !.live = FALSE]
    /\ UNCHANGED serverVars

(***************************************************************************)
(* The zoom buttons.                                                       *)
(***************************************************************************)
\* Mutant of ZoomInLevel: the + button without its Math.min.
ZoomInLevelUnbounded(z) == z + ZoomStep

\* Math.min(5, parseFloat((z + 0.1).toFixed(2)))
ZoomInLevel(z) == IF z + ZoomStep < ZoomMax THEN z + ZoomStep ELSE ZoomMax
\* Math.max(0.2, parseFloat((z - 0.1).toFixed(2)))
ZoomOutLevel(z) == IF z - ZoomStep > ZoomMin THEN z - ZoomStep ELSE ZoomMin

\* setZoom(level) from a button, and the tool effect if the zoom has changed.
SetZoom(level) ==
    /\ Ready
    /\ page' = [page EXCEPT !.zoom = level]
    /\ canvas' = IF page' # page THEN ToolEffect(canvas, page') ELSE canvas
    /\ UNCHANGED <<imageLoads, saving, serverVars>>

ZoomIn == SetZoom(ZoomInLevel(page.zoom))
ZoomOut == SetZoom(ZoomOutLevel(page.zoom))
Fit == SetZoom(ZoomFit)

(***************************************************************************)
(* saveAll ("Save & Complete")                                             *)
(***************************************************************************)
\* canvas.clear(): every object is removed, the image included
ClearAll(cv) == IF ~cv.exists THEN cv ELSE [cv EXCEPT !.objects = <<>>]

\* canvas.toDataURL({ format: 'png' }): the PNG of the canvas as it is
\* rendered, its objects in z-order under the viewport transform of the
\* canvas (toCanvasElement keeps the zoom of the canvas).
toDataURL(cv) ==
    "data:image/png;base64," \o
        ToString(<<[i \in 1..Len(cv.objects) |-> toObject(cv.objects[i])], cv.zoom>>)

\* The canvas after the fromURL callback of saveAll has drawn slot i on it:
\* the image added and sent to the back, latestAnnotations[i] added on top.
ComposedCanvas(cv, url, latestAnnotations, i) ==
    addAnnotations([cv EXCEPT !.objects = <<ImageObject(url)>> \o @],
                   At(latestAnnotations, i))

\* Mutant of SaveBody: every request names slot 0.
SaveBodyFirstSlot(latestAnnotations, i, cv, treatmentRecommendations) ==
    AnnotateBody(ArrayOf(AssignAt(latestAnnotations, i, stripImagesFromJSON(toJSON(cv)))),
                 treatmentRecommendations, toDataURL(cv), 0)

\* The request of slot i: dataForI is latestAnnotations with the JSON of the
\* composed canvas at i; the raster of the canvas; the index i.
SaveBody(latestAnnotations, i, cv, treatmentRecommendations) ==
    AnnotateBody(ArrayOf(AssignAt(latestAnnotations, i, stripImagesFromJSON(toJSON(cv)))),
                 treatmentRecommendations, toDataURL(cv), i)

\* Mutant of SaveAllLoop: the loop does not look whether there is a canvas.
SaveAllLoopUnguarded(i, latestAnnotations, saved, cv) ==
    IF i < Len(page.submission.originalImagePaths)
    THEN /\ canvas' = ClearAll(cv)
         /\ saving' = SaveAllAt("image", i, latestAnnotations, TRUE, NoBody, saved)
         /\ UNCHANGED imageLoads
    ELSE /\ canvas' = NoCanvas
         /\ saving' = SaveAllAt("done", i, latestAnnotations, FALSE, NoBody, saved)
         /\ imageLoads' = {StaleLoad : l \in imageLoads}

\* Mutant of SaveAllLoop: the loop goes from slot 0 to the last slot.
SaveAllLoopSkipping(i, latestAnnotations, saved, cv) ==
    LET k == IF i = 1 THEN NumSlots - 1 ELSE i IN
    IF k < Len(page.submission.originalImagePaths) /\ cv.exists
    THEN /\ canvas' = ClearAll(cv)
         /\ saving' = SaveAllAt("image", k, latestAnnotations, TRUE, NoBody, saved)
         /\ UNCHANGED imageLoads
    ELSE /\ canvas' = NoCanvas
         /\ saving' = SaveAllAt("done", k, latestAnnotations, FALSE, NoBody, saved)
         /\ imageLoads' = {StaleLoad : l \in imageLoads}

\* The head of the for loop at index i: with a canvas, it is cleared and the
\* image of slot i requested; without one every remaining iteration resolves
\* at once; past the last slot the page navigates away and unmounts (the
\* canvas is disposed of).
SaveAllLoop(i, latestAnnotations, saved, cv) ==
    IF i < Len(page.submission.originalImagePaths) /\ cv.exists
    THEN /\ canvas' = ClearAll(cv)
         /\ saving' = SaveAllAt("image", i, latestAnnotations, TRUE, NoBody, saved)
         /\ UNCHANGED imageLoads
    ELSE /\ canvas' = NoCanvas
         /\ saving' = SaveAllAt("done", i, latestAnnotations, FALSE, NoBody, saved)
         /\ imageLoads' = {StaleLoad : l \in imageLoads}

\* The Save & Complete button (disabled while isSaving).
SaveAllStart ==
    /\ Ready
    /\ saving.pos = "idle"
    /\ LET latestAnnotations ==
               persistLocalState(canvas, page.annotationData, page.currentImageIndex)
       IN  /\ page' = [page EXCEPT !.annotationData = latestAnnotations]
           /\ SaveAllLoop(0, latestAnnotations, {}, canvas)
    /\ UNCHANGED serverVars

\* The fromURL callback of saveAll for slot i.  On the canvas the iteration
\* took from fabricCanvasRef it composes the slot and sends the request.  If
\* a switch has disposed of that canvas in between, drawing on it either
\* throws (the promise never resolves and saveAll never continues) or goes on
\* with the disposed canvas, which holds no objects.
SaveImageLoaded ==
    /\ saving.pos = "image"
    /\ LET url == getFileUrl(page.submission.originalImagePaths[saving.i + 1])
           cv == IF saving.live THEN canvas ELSE NewCanvas
           composed == ComposedCanvas(cv, url, saving.latestAnnotations, saving.i)
           body == SaveBody(saving.latestAnnotations, saving.i, composed,
                            page.treatmentRecommendations)
       IN  \/ /\ canvas' = IF saving.live THEN composed ELSE canvas
              /\ saving' = [saving EXCEPT !.pos = "post", !.body = body]
           \/ /\ ~saving.live
              /\ saving' = [saving EXCEPT !.pos = "stuck"]
              /\ UNCHANGED canvas
    /\ UNCHANGED <<page, imageLoads, serverVars>>

\* The save request of slot i settles: the server has handled it (ok) or it
\* failed before reaching the handler; .finally(resolve) continues the loop
\* either way.
SaveResponded(ok) ==
    /\ saving.pos = "post"
    /\ IF ok THEN \E id \in Ids : Annotate(id, saving.body) ELSE UNCHANGED serverVars
    /\ SaveAllLoop(saving.i + 1, saving.latestAnnotations,
                   IF ok THEN saving.saved \cup {saving.i} ELSE saving.saved, canvas)
    /\ UNCHANGED page

\* The Back button: navigate('/admin') unmounts the page, and the cleanup of
\* the canvas effect disposes of the canvas and sets fabricCanvasRef.current
\* to null.  A saveAll that is running goes on.
Back ==
    /\ Ready
    /\ page' = [page EXCEPT !.mounted = FALSE]
    /\ canvas' = NoCanvas
    /\ imageLoads' = {StaleLoad : l \in imageLoads}
    /\ saving' = [saving EXCEPT !.live = FALSE]
    /\ UNCHANGED serverVars

\* An editing session on a submission that is stored: one just uploaded, or
\* one that an earlier session has annotated.
StoredImages == ReqFiles(<<"upper.png", "front.png", "lower.png">>, 1)
JustUploaded == NewSubmission(originalImagePathsOf(StoredImages), 1)
EarlierBody == [ annotationData |-> ArrayOf(<<NullDoc, docA, NullDoc>>),
                 treatmentRecommendations |-> "scaling",
                 annotatedImageDataUrl |-> NoUrl,
                 annotatedImageIndex |-> NoIndex ]
AnnotatedEarlier == AnnotatedSubmission(JustUploaded, EarlierBody, <<>>, 2)

EditorInit ==
    /\ disk = {StoredImages[i] : i \in 1..NumSlots}
    /\ \/ /\ db = <<JustUploaded>>
          /\ clock = 2
          /\ req = Request("upload", [fields |-> "valid",
                                      files |-> <<"upper.png", "front.png", "lower.png">>])
          /\ res = Response(201, "Submission uploaded successfully")
       \/ /\ db = <<AnnotatedEarlier>>
          /\ clock = 3
          /\ req = Request("annotate", EarlierBody)
          /\ res = Response(200, "Annotation saved successfully")
    /\ handlers = NoHandlers
    /\ page = MountedPage
    /\ canvas = NoCanvas
    /\ imageLoads = {}
    /\ saving = NotSaving

\* One editing session: the page loads, then the user draws, places
\* rectangles, erases, undoes, clears and switches between the slots while
\* the image callbacks arrive (the colour stays the initial one).
EditorNext ==
    \/ \E ok \in BOOLEAN : LoadSubmission(ok)
    \/ \E l \in imageLoads : ImageLoaded(l)
    \/ \E tool \in {"freehand", "eraser"} : SetActiveTool(tool)
    \/ \E shape \in {"rectangle"} : ShapeButton(shape)
    \/ CaptureStroke
    \/ Undo
    \/ Clear
    \/ \E i \in 0..NumSlots : SwitchImage(i)

EditorSpec == EditorInit /\ [][EditorNext]_vars

\* One editing session on a submission just uploaded that saves: the user
\* places rectangles and switches between the slots, clicks Save & Complete
\* at any moment and goes on switching while saveAll runs; the report is
\* requested from the dashboard the page navigates to.
SaveInit == EditorInit /\ db = <<JustUploaded>>
\* The thumbnails the user clicks in that session.
SwitchSlots == {0, 1}

SaveNext ==
    \/ \E ok \in BOOLEAN : LoadSubmission(ok)
    \/ \E l \in imageLoads : ImageLoaded(l)
    \/ \E shape \in {"rectangle"} : saving.pos = "idle" /\ ShapeButton(shape)
    \/ \E i \in SwitchSlots : SwitchImage(i)
    \/ SaveAllStart
    \/ SaveImageLoaded
    \/ \E ok \in BOOLEAN : SaveResponded(ok)
    \/ \E id \in Ids :
           saving.pos = "done" /\ GenerateReport(id) /\ UNCHANGED editorVars

SaveSpec == SaveInit /\ [][SaveNext]_vars

\* One editing session on a submission just uploaded in which the user
\* places rectangles, clicks Save & Complete and leaves the page with the
\* Back button at any moment, also while saveAll runs.
LeaveNext ==
    \/ \E ok \in BOOLEAN : LoadSubmission(ok)
    \/ \E l \in imageLoads : ImageLoaded(l)
    \/ \E shape \in {"rectangle"} : saving.pos = "idle" /\ ShapeButton(shape)
    \/ \E i \in SwitchSlots : saving.pos = "idle" /\ SwitchImage(i)
    \/ SaveAllStart
    \/ SaveImageLoaded
    \/ \E ok \in BOOLEAN : SaveResponded(ok)
    \/ Back

LeaveSpec == SaveInit /\ [][LeaveNext]_vars

\* One editing session in which the user zooms and switches between the
\* slots while the image callbacks arrive.
ZoomNext ==
    \/ \E ok \in BOOLEAN : LoadSubmission(ok)
    \/ \E l \in imageLoads : ImageLoaded(l)
    \/ ZoomIn
    \/ ZoomOut
    \/ Fit
    \/ \E i \in 0..NumSlots : SwitchImage(i)

ZoomSpec == EditorInit /\ [][ZoomNext]_vars

(***************************************************************************)
(* POST /:id/annotate of two sessions at a time.                           *)
(***************************************************************************)
\* The handler of session s receives a request and reads the document:
\* await Submission.findById(req.params.id).
AnnotateFind(s, body) ==
    /\ clock <= MaxClock
    /\ db # <<>>
    /\ handlers[s].pos # "found"
    /\ handlers' = [handlers EXCEPT ![s] = Handler("found", body, db[1], FALSE, NoResponse)]
    /\ req' = Request("annotate", body)
    /\ UNCHANGED <<db, disk, clock, res, editorVars>>

\* The handler of session s goes on after findById: it writes the raster,
\* assigns the fields to the document it has read and saves it.  save()
\* sends the assigned paths, the two arrays as a whole.  When another save
\* has been stored since the document was read, the arrays either overwrite
\* the stored ones or, if the version of the document is checked, the save
\* is rejected and the catch block answers 500.
AnnotateSave(s) ==
    /\ clock <= MaxClock
    /\ handlers[s].pos = "found"
    /\ LET h == handlers[s]
           filepath == AnnotatedFilename(clock, h.body.annotatedImageDataUrl,
                                         h.body.annotatedImageIndex)
           updated == UpdatedAnnotatedImagePaths(
                          h.submission.annotatedImagePaths,
                          h.body.annotatedImageDataUrl,
                          h.body.annotatedImageIndex, filepath)
       IN  /\ disk' = IF h.body.annotatedImageDataUrl # NoUrl
                        THEN disk \cup {File(filepath, h.body.annotatedImageDataUrl, <<>>)}
                        ELSE disk
           /\ clock' = clock + 1
           /\ \/ /\ db' = [db EXCEPT ![1] = AnnotatedSubmission(db[1], h.body, updated, clock)]
                 /\ res' = Response(200, "Annotation saved successfully")
                 /\ handlers' =
                        [t \in DOMAIN handlers |->
                            IF t = s THEN [h EXCEPT !.pos = "done", !.response = res']
                            ELSE IF t \in Sessions /\ handlers[t].pos = "found"
                            THEN [handlers[t] EXCEPT !.stale = TRUE]
                            ELSE handlers[t]]
              \/ /\ h.stale
                 /\ res' = Response(500, "Server error saving annotation")
                 /\ handlers' = [handlers EXCEPT ![s] =
                                    [h EXCEPT !.pos = "done", !.response = res']]
                 /\ UNCHANGED db
    /\ UNCHANGED <<req, editorVars>>

\* The requests of the two sessions, opened on the submission just uploaded:
\* each sends what saveAll sends for a slot, its own document at that slot
\* of an array that is null elsewhere, with the raster and the index.
SessionDoc(s) == IF s = "A" THEN docA ELSE docB
SessionSlots == {0, 1}
SessionBodies(s) ==
    { AnnotateBody(ArrayOf(AssignAt(<<NullDoc, NullDoc, NullDoc>>, i, SessionDoc(s))),
                   "scaling", "data:image/png;base64", i) : i \in SessionSlots }

ConcurrentInit == EditorInit /\ db = <<JustUploaded>>

ConcurrentNext ==
    \/ \E s \in Sessions : \E body \in SessionBodies(s) : AnnotateFind(s, body)
    \/ \E s \in Sessions : AnnotateSave(s)

ConcurrentSpec == ConcurrentInit /\ [][ConcurrentNext]_vars

(***************************************************************************)
(* POST /:id/generate-report while an annotate request is handled.         *)
(***************************************************************************)
\* The generate-report handler up to its await of the PDF stream: it reads
\* the document, checks it, and writes the PDF from the raster refs it has
\* read.
ReportBuild ==
    /\ clock <= MaxClock
    /\ db # <<>>
    /\ handlers[Reporter].pos # "found"
    /\ req' = Request("generate-report", <<>>)
    /\ IF ReportRefusal(db[1]) # ""
         THEN /\ res' = Response(400, ReportRefusal(db[1]))
              /\ handlers' = [handlers EXCEPT ![Reporter] =
                                 Handler("done", NoBody, db[1], FALSE, res')]
              /\ UNCHANGED <<db, disk, clock>>
         ELSE LET filepath == Path("reports", clock, 0)
                  sources == ReportSources(annotatedPathsOf(db[1]), disk)
              IN  /\ disk' = disk \cup {File(filepath, "pdf", sources)}
                  /\ handlers' = [handlers EXCEPT ![Reporter] =
                                     [Handler("found", NoBody, db[1], FALSE, NoResponse)
                                         EXCEPT !.filepath = filepath]]
                  /\ clock' = clock + 1
                  /\ UNCHANGED <<db, res>>
    /\ UNCHANGED editorVars

\* The handler goes on when the stream has finished: it assigns reportPath,
\* reportUrl, status and reportGeneratedAt to the document it has read and
\* saves it.  save() sends the paths assigned, which are set on the stored
\* document as it is then.
ReportSave ==
    /\ handlers[Reporter].pos = "found"
    /\ db' = [db EXCEPT ![1] = ReportedSubmission(db[1], handlers[Reporter].filepath, clock)]
    /\ res' = Response(200, "Report generated successfully")
    /\ handlers' = [handlers EXCEPT ![Reporter] = [@ EXCEPT !.pos = "done", !.response = res']]
    /\ UNCHANGED <<disk, clock, req, editorVars>>

\* One session saves the rasters of the three slots, one request at a time,
\* and goes on saving while the report is requested.
ReportRaceNext ==
    \/ \E body \in SessionBodies("A") \cup
                     { AnnotateBody(ArrayOf(<<docA, docA, docA>>), "scaling",
                                    "data:image/png;base64", NumSlots - 1) } :
           AnnotateFind("A", body)
    \/ AnnotateSave("A")
    \/ ReportBuild
    \/ ReportSave

ReportRaceSpec == ConcurrentInit /\ [][ReportRaceNext]_vars

\* Serialization: the page is open on a submission just uploaded and its
\* canvas holds any document of up to MaxDocLen annotation objects (strokes,
\* eraser strokes and the three shapes), over the base image or before it
\* has loaded; the user switches between the slots, which serializes the
\* canvas into the draft, and the image callbacks deserialize the drafts
\* onto the new canvases.
SerializedObjects ==
    { AnnotationObject("path", "#DC2626", 3), AnnotationObject("path", "#FFFFFF", 10),
      AnnotationObject("rect", "#DC2626", 3), AnnotationObject("circle", "#DC2626", 3),
      AnnotationObject("group", "#DC2626", 3) }
AnnotationSeqs == UNION { [1..n -> SerializedObjects] : n \in 0..MaxDocLen }
BaseImage == ImageObject(getFileUrl(UrlOf(StoredImages[1].path)))
ImageLayers == { <<>>, <<BaseImage>> }
Documents == { images \o enlivenObjects(annotations) :
                   images \in ImageLayers, annotations \in AnnotationSeqs }

LoadedPage ==
    [MountedPage EXCEPT !.submission = SubmissionWithUrls(JustUploaded),
                        !.annotationData = InitialAnnotationData(JustUploaded),
                        !.isLoading = FALSE]

SerializeInit ==
    /\ disk = {StoredImages[i] : i \in 1..NumSlots}
    /\ db = <<JustUploaded>>
    /\ clock = 2
    /\ req = Request("upload", [fields |-> "valid",
                                files |-> <<"upper.png", "front.png", "lower.png">>])
    /\ res = Response(201, "Submission uploaded successfully")
    /\ handlers = NoHandlers
    /\ page = LoadedPage
    /\ canvas \in { Canvas(objects, TRUE, "#DC2626", 3) : objects \in Documents }
    /\ imageLoads = IF ImagesOn(canvas) = <<>> THEN CanvasEffectLoads(LoadedPage, {}) ELSE {}
    /\ saving = NotSaving

SerializeNext ==
    \/ \E i \in 0..NumSlots : SwitchImage(i)
    \/ \E l \in imageLoads : ImageLoaded(l)

SerializeSpec == SerializeInit /\ [][SerializeNext]_vars

(***************************************************************************)
(* The upload wizard (src/client/src/pages/Upload.jsx).                    *)
(***************************************************************************)
\* imageSteps: the keys of the image steps 1, 2 and 3.
ImageKeys == <<"upper", "front", "lower">>
\* null where a File is expected.
NoFile == ""
\* The files the user selects at the step of a key: the photo taken for it;
\* a file that is not an image; an image over 10MB.
ImageFiles(key) == {key \o ".png"}
NotAnImage == "notes.txt"
TooLarge == "huge.png"
\* The user of the AuthContext: none, one whose profile lacks a field, one
\* with name, mobile number and email.
Users == {"none", "partial", "complete"}
\* The formData a user prefills: all fields of a complete profile, valid as
\* the profile routes stored them; else some field is empty.
UserFields(user) == IF user = "complete" THEN {"valid"} ELSE {"missing"}
\* What the user types into the form.
TypedFields == {"valid", "bad email"}
\* The FormData of a request that is not being sent.
NoFormData == [fields |-> "missing", files |-> <<>>]
\* The FileReader reads in progress at a time.
MaxReads == 1

\* The state of the Upload component when it mounts.
MountedUpload ==
    [ mounted          |-> TRUE,
      currentStep      |-> 0,
      uploadedImages   |-> [k \in {"upper", "front", "lower"} |-> NoFile],
      imagePreviews    |-> [k \in {"upper", "front", "lower"} |-> NoFile],
      fields           |-> "missing",
      user             |-> "none",
      userFields       |-> "missing",
      isEditingProfile |-> FALSE,
      updatingProfile  |-> FALSE,
      isLoading        |-> FALSE,
      formData         |-> NoFormData,
      error            |-> "" ]

\* The prefill effect (deps user): formData is set from the user, and with a
\* complete profile the wizard goes to step 1.
PrefillEffect(pg, user, fields) ==
    IF user = "none" THEN [pg EXCEPT !.user = user]
    ELSE [pg EXCEPT !.user = user, !.userFields = fields, !.fields = fields,
                    !.currentStep = IF user = "complete" THEN 1 ELSE @]

\* validateForm: '' when the form passes, else the error it sets.
validateForm(fields) ==
    IF fields = "missing" THEN "Patient name is required"
    ELSE IF fields = "bad email" THEN "Please enter a valid email address"
    ELSE IF fields = "bad mobile" THEN "Please enter a valid mobile number (10-15 digits)"
    ELSE ""

\* The form of step 0 is shown (not the summary of a complete profile).
FormShown(pg) == pg.currentStep = 0 /\ (pg.isEditingProfile \/ pg.user # "complete")
\* The key of the image step the wizard shows.
StepKey(pg) == ImageKeys[pg.currentStep]
OnImageStep(pg) == pg.mounted /\ pg.currentStep \in 1..NumSlots

\* nextStep
nextStep(pg) ==
    IF pg.currentStep \in 1..NumSlots /\ pg.uploadedImages[ImageKeys[pg.currentStep]] = NoFile
    THEN [pg EXCEPT !.error = "Please upload the image"]
    ELSE IF pg.currentStep < 4
    THEN [pg EXCEPT !.currentStep = @ + 1, !.error = ""]
    ELSE pg

\* prevStep
prevStep(pg) ==
    IF pg.currentStep > 0
    THEN [pg EXCEPT !.currentStep = @ - 1, !.error = ""]
    ELSE pg

\* Mutant of AppendedImages: the images are appended from the last step back.
AppendedImagesReversed(pg) ==
    <<pg.uploadedImages["lower"], pg.uploadedImages["front"], pg.uploadedImages["upper"]>>

\* The images appended to the FormData: upper, front, lower.
AppendedImages(pg) ==
    <<pg.uploadedImages["upper"], pg.uploadedImages["front"], pg.uploadedImages["lower"]>>

WizardUnchanged == UNCHANGED <<canvas, saving, serverVars>>

\* The AuthContext provides another user object: the prefill effect runs.
UserChanged(user, fields) ==
    /\ page.mounted
    /\ fields \in UserFields(user)
    /\ page' = PrefillEffect(page, user, fields)
    /\ page' # page
    /\ UNCHANGED imageLoads /\ WizardUnchanged

\* handleChange on a field of the form.
HandleChange(fields) ==
    /\ page.mounted /\ FormShown(page)
    /\ page' = [page EXCEPT !.fields = fields]
    /\ UNCHANGED imageLoads /\ WizardUnchanged

\* handleFormSubmit: the submit button of the form when the profile is not
\* being edited.
HandleFormSubmit ==
    /\ page.mounted /\ FormShown(page) /\ ~page.isEditingProfile
    /\ page' = IF validateForm(page.fields) = ""
               THEN [page EXCEPT !.error = "", !.currentStep = 1]
               ELSE [page EXCEPT !.error = validateForm(page.fields)]
    /\ UNCHANGED imageLoads /\ WizardUnchanged

\* The buttons of the summary of a complete profile.
EditInformation ==
    /\ page.mounted /\ page.currentStep = 0 /\ ~FormShown(page)
    /\ page' = [page EXCEPT !.isEditingProfile = TRUE]
    /\ UNCHANGED imageLoads /\ WizardUnchanged

ContinueToImageUpload ==
    /\ page.mounted /\ page.currentStep = 0 /\ ~FormShown(page)
    /\ page' = [page EXCEPT !.currentStep = 1]
    /\ UNCHANGED imageLoads /\ WizardUnchanged

\* The Cancel button of the form while the profile is edited.
CancelEdit ==
    /\ page.mounted /\ page.currentStep = 0 /\ page.isEditingProfile
    /\ page' = [page EXCEPT !.isEditingProfile = FALSE,
                            !.fields = IF page.user = "none" THEN @ ELSE page.userFields]
    /\ UNCHANGED imageLoads /\ WizardUnchanged

\* handleProfileUpdate up to its await of updateProfile.
HandleProfileUpdate ==
    /\ page.mounted /\ page.currentStep = 0 /\ page.isEditingProfile
    /\ ~page.updatingProfile
    /\ page' = IF validateForm(page.fields) = ""
               THEN [page EXCEPT !.error = "", !.updatingProfile = TRUE]
               ELSE [page EXCEPT !.error = validateForm(page.fields)]
    /\ UNCHANGED imageLoads /\ WizardUnchanged

\* updateProfile settles: on success the form is closed and the wizard goes
\* to step 1, wherever it is by then.
ProfileUpdateSettled(ok) ==
    /\ page.mounted /\ page.updatingProfile
    /\ page' = IF ok
               THEN [page EXCEPT !.updatingProfile = FALSE, !.isEditingProfile = FALSE,
                                 !.currentStep = 1]
               ELSE [page EXCEPT !.updatingProfile = FALSE,
                                 !.error = "Failed to update profile. Please try again."]
    /\ UNCHANGED imageLoads /\ WizardUnchanged

\* handleImageUpload(e, step.key): a file that is not an image or is too
\* large is refused; else it becomes the image of the key and its preview is
\* read.
HandleImageUpload(file) ==
    /\ OnImageStep(page)
    /\ IF file = NotAnImage
         THEN /\ page' = [page EXCEPT !.error = "Please select a valid image file"]
              /\ UNCHANGED imageLoads
         ELSE IF file = TooLarge
         THEN /\ page' = [page EXCEPT !.error = "Image size must be less than 10MB"]
              /\ UNCHANGED imageLoads
         ELSE /\ file \in ImageFiles(StepKey(page))
              /\ Cardinality(imageLoads) < MaxReads
              /\ page' = [page EXCEPT !.uploadedImages[StepKey(page)] = file, !.error = ""]
              /\ imageLoads' = imageLoads \cup {[key |-> StepKey(page), file |-> file]}
    /\ WizardUnchanged

\* reader.onload: the preview of the key is set.
PreviewLoaded(l) ==
    /\ l \in imageLoads
    /\ imageLoads' = imageLoads \ {l}
    /\ page' = IF page.mounted THEN [page EXCEPT !.imagePreviews[l.key] = l.file] ELSE page
    /\ WizardUnchanged

\* removeImage(step.key): the Remove button, shown with the preview.
RemoveImage ==
    /\ OnImageStep(page)
    /\ page.imagePreviews[StepKey(page)] # NoFile
    /\ page' = [page EXCEPT !.uploadedImages[StepKey(page)] = NoFile,
                            !.imagePreviews[StepKey(page)] = NoFile]
    /\ UNCHANGED imageLoads /\ WizardUnchanged

\* The Next button of an image step, disabled without the image of the step.
NextStep ==
    /\ OnImageStep(page)
    /\ page.uploadedImages[StepKey(page)] # NoFile
    /\ page' = nextStep(page)
    /\ UNCHANGED imageLoads /\ WizardUnchanged

\* The Previous button of the image steps and of the review step.
PrevStep ==
    /\ page.mounted /\ page.currentStep \in 1..4
    /\ page' = prevStep(page)
    /\ UNCHANGED imageLoads /\ WizardUnchanged

\* handleFinalSubmit up to its await: without the three images an error is
\* set; else the FormData is built and the upload request sent.
HandleFinalSubmit ==
    /\ page.mounted /\ page.currentStep = 4 /\ ~page.isLoading
    /\ page' = IF \E k \in DOMAIN page.uploadedImages : page.uploadedImages[k] = NoFile
               THEN [page EXCEPT !.error = "Please upload all 3 required images"]
               ELSE [page EXCEPT !.error = "", !.isLoading = TRUE,
                                 !.formData = [fields |-> page.fields,
                                               files |-> AppendedImages(page)]]
    /\ UNCHANGED imageLoads /\ WizardUnchanged

\* The upload request settles: the server has handled it (ok) or it failed
\* before reaching the handler.  After a 201 the page navigates to the
\* dashboard; else the error is shown.
UploadSettled(ok) ==
    /\ page.isLoading
    /\ IF ok THEN Upload(page.formData.fields, page.formData.files)
             ELSE UNCHANGED serverVars
    /\ page' = IF ok /\ res'.code = 201
               THEN [page EXCEPT !.isLoading = FALSE, !.formData = NoFormData,
                                 !.mounted = FALSE]
               ELSE [page EXCEPT !.isLoading = FALSE, !.formData = NoFormData,
                                 !.error = IF ok THEN res'.message
                                           ELSE "Upload failed. Please try again."]
    /\ UNCHANGED <<imageLoads, canvas, saving>>

\* The wizard is opened by a user of the AuthContext; the prefill effect
\* has run.
WizardInit ==
    /\ db = <<>>
    /\ disk = {}
    /\ clock = 1
    /\ req = NoRequest
    /\ res = NoResponse
    /\ handlers = NoHandlers
    /\ \E user \in Users : \E fields \in UserFields(user) :
           page = PrefillEffect(MountedUpload, user, fields)
    /\ canvas = NoCanvas
    /\ imageLoads = {}
    /\ saving = NotSaving

WizardNext ==
    \/ \E user \in Users : \E fields \in UserFields(user) : UserChanged(user, fields)
    \/ \E fields \in TypedFields : HandleChange(fields)
    \/ HandleFormSubmit
    \/ EditInformation
    \/ ContinueToImageUpload
    \/ CancelEdit
    \/ HandleProfileUpdate
    \/ \E ok \in BOOLEAN : ProfileUpdateSettled(ok)
    \/ \E file \in {"upper.png", "front.png", "lower.png", NotAnImage, TooLarge} :
           HandleImageUpload(file)
    \/ \E l \in imageLoads : PreviewLoaded(l)
    \/ RemoveImage
    \/ NextStep
    \/ PrevStep
    \/ HandleFinalSubmit
    \/ \E ok \in BOOLEAN : UploadSettled(ok)

WizardSpec == WizardInit /\ [][WizardNext]_vars

(***************************************************************************)
(* Properties of the submission routes.                                    *)
(***************************************************************************)
\* The document the model follows, once uploaded.
Uploaded == db # <<>>
sub == db[1]

\* Slot i (1..3 here, 0..2 in the code) has an annotation document.
HasDocument(s, i) ==
    /\ s.annotationData.isArray
    /\ i <= Len(s.annotationData.list)
    /\ s.annotationData.list[i] # NullDoc
\* Slot i has an annotated raster ref.
HasRaster(s, i) ==
    /\ i <= Len(s.annotatedImagePaths)
    /\ s.annotatedImagePaths[i] # NoPath
\* The number of annotated raster refs stored.
RasterCount(s) == Len(FilterBoolean(s.annotatedImagePaths))
\* The files of the reports directory.
ReportFiles(files) == {f \in files : f.path.dir = "reports"}

\* The responses that reject a report request as incomplete.
IncompleteAnnotationErrors ==
    { Response(400, "Submission must be annotated before generating report"),
      Response(400, "Annotated images are required to generate the report (all three views).") }

\* C1: the status of a submission only ever changes uploaded -> annotated or
\* annotated -> reported; it never moves backward and never skips a state.
C1_StatusOnlyMovesForward ==
    [][ (Uploaded /\ db' # <<>> /\ db'[1].status # sub.status) =>
            \/ sub.status = "uploaded" /\ db'[1].status = "annotated"
            \/ sub.status = "annotated" /\ db'[1].status = "reported" ]_vars

\* C2: a submission is reported only if each of the three slots has both an
\* annotation document and an annotated raster ref (no request changes either
\* while the status stays reported, so they are those of the transition).
C2_ReportedHasAllSlots ==
    (Uploaded /\ sub.status = "reported") =>
        \A i \in 1..NumSlots : HasDocument(sub, i) /\ HasRaster(sub, i)

\* C3: a report request on a submission that stores fewer than three
\* annotated raster refs is refused as incomplete, the submission is left
\* as it was and no file is written.
C3_FewerThanThreeRastersRefused ==
    [][ \A id \in Ids :
            (GenerateReport(id) /\ Uploaded /\ RasterCount(sub) < NumSlots) =>
                /\ res' \in IncompleteAnnotationErrors
                /\ db' = db
                /\ disk' = disk ]_vars

\* C3 witness: the incomplete-images refusal was given to a submission that is
\* annotated and stores two raster refs.
C3_Witness ==
    /\ Uploaded
    /\ req.route = "generate-report"
    /\ sub.status = "annotated"
    /\ RasterCount(sub) = 2
    /\ res = Response(400, "Annotated images are required to generate the report (all three views).")
    /\ ReportFiles(disk) = {}

\* C4: a report request on a submission whose status is not annotated
\* (uploaded, or already reported) fails, leaves the submission as it was
\* and writes no file.
C4_NotAnnotatedRefused ==
    [][ \A id \in Ids :
            (GenerateReport(id) /\ Uploaded /\ sub.status # "annotated") =>
                /\ res'.code = 400
                /\ db' = db
                /\ disk' = disk ]_vars

\* C4 witness: the refusal was given to a submission that is already reported
\* (all three rasters stored), and the one report file is the first one.
C4_Witness ==
    /\ Uploaded
    /\ req.route = "generate-report"
    /\ sub.status = "reported"
    /\ RasterCount(sub) >= NumSlots
    /\ res = Response(400, "Submission must be annotated before generating report")
    /\ Cardinality(ReportFiles(disk)) = 1

\* C5: the report reference is present only when the status is reported.
C5_ReportRefOnlyWhenReported ==
    (Uploaded /\ (sub.reportPath # NoPath \/ sub.reportUrl # NoPath)) =>
        sub.status = "reported"

\* C6: the submission has exactly three slots: three original images, and no
\* entry of the annotated-raster array or of the annotation-document array
\* at an index outside 0..2.
C6_ExactlyThreeSlots ==
    Uploaded =>
        /\ Len(sub.originalImagePaths) = NumSlots
        /\ Len(sub.annotatedImagePaths) <= NumSlots
        /\ Len(sub.annotationData.list) <= NumSlots

\* C7: a successful save replaces the whole annotationData with the list
\* supplied, sets the status to annotated and sets annotatedAt; a slot for
\* which the list holds null has no document afterwards.
C7_SaveReplacesWholeArray ==
    ( /\ Uploaded
      /\ req.route = "annotate"
      /\ res = Response(200, "Annotation saved successfully")
      /\ req.body.annotationData.isArray ) =>
        /\ sub.annotationData = req.body.annotationData
        /\ sub.status = "annotated"
        /\ sub.annotatedAt # NoDate
        /\ \A i \in 1..Len(req.body.annotationData.list) :
               req.body.annotationData.list[i] = NullDoc => ~HasDocument(sub, i)

\* C7 witness: a save supplying [doc0, null, null] was the last request of a
\* submission that earlier saves had given rasters for slots 1 and 2.
C7_Witness ==
    /\ Uploaded
    /\ req.route = "annotate"
    /\ req.body.annotationData = ArrayOf(<<docA, NullDoc, NullDoc>>)
    /\ res = Response(200, "Annotation saved successfully")
    /\ sub.status = "annotated"
    /\ sub.annotatedAt # NoDate
    /\ sub.annotationData = ArrayOf(<<docA, NullDoc, NullDoc>>)
    /\ HasRaster(sub, 2) /\ HasRaster(sub, 3)

\* The body supplies annotation data for at least one slot.
SuppliesAnnotation(body) ==
    /\ body.annotationData.isArray
    /\ \E i \in 1..Len(body.annotationData.list) : body.annotationData.list[i] # NullDoc

\* C8: a submission moves from uploaded to annotated only by a save that
\* supplies annotation data for at least one slot, and annotatedAt is then
\* set; a save whose list is absent, empty or all null leaves it uploaded.
C8_AnnotatedNeedsAnnotationData ==
    [][ (Uploaded /\ sub.status = "uploaded" /\ db'[1].status = "annotated") =>
            /\ \E id \in Ids, body \in AnnotateBodies :
                   Annotate(id, body) /\ SuppliesAnnotation(body)
            /\ db'[1].annotatedAt # NoDate ]_vars

\* The responses that reject an upload request for its input.
ValidationErrors ==
    { Response(400, "Patient name, mobile number, and email are required"),
      Response(400, "Please provide a valid email address"),
      Response(400, "Please provide a valid mobile number"),
      Response(400, "Exactly 3 images are required"),
      Response(500, "Unexpected field") }

Serialized(objects) == [i \in 1..Len(objects) |-> toObject(objects[i])]

ImagePending == \E l \in imageLoads : l.live

\* C11: after a switch to another slot, no capture operation (stroke, shape,
\* undo, clear) changes the objects of the canvas while the base image and
\* the saved annotations of that slot are still to be loaded onto it.
C11_NoCaptureBeforeSlotLoaded ==
    [][ ( /\ page.currentImageIndex # 0
          /\ ImagePending
          /\ \/ CaptureStroke
             \/ Undo
             \/ Clear
             \/ \E shape \in Tools : ShapeButton(shape) ) =>
            canvas'.objects = canvas.objects ]_vars

\* Every slot of the loop of saveAll.
AllSlots == 0..(NumSlots - 1)

\* C12: on a submission just uploaded, once saveAll has run to its end with
\* the three save requests succeeding, the submission is annotated and
\* stores a raster ref in each of the slots 0, 1 and 2, so the report
\* request is not refused (and the only later status is reported, by that
\* report request).
C12_SaveAllConverges ==
    (saving.pos = "done" /\ saving.saved = AllSlots) =>
        /\ \A i \in 1..NumSlots : HasRaster(sub, i)
        /\ \/ sub.status = "annotated" /\ ReportRefusal(sub) = ""
           \/ /\ sub.status = "reported"
              /\ req.route = "generate-report"

\* C12 witness: saveAll ended with its three saves stored at the slots 0, 1
\* and 2 of a submission that had no raster, and the report request that
\* followed was accepted.
C12_Witness ==
    /\ saving.pos = "done"
    /\ saving.saved = AllSlots
    /\ Len(sub.annotatedImagePaths) = NumSlots
    /\ \A i \in 1..NumSlots : sub.annotatedImagePaths[i] = Path("annotated-images", i + 1, i - 1)
    /\ res = Response(200, "Report generated successfully")
    /\ sub.status = "reported"

\* The last object of a canvas.
LastObject(cv) == cv.objects[Len(cv.objects)]
\* Math.max(10, brushSize + 6)
EraserWidth(brushSize) == IF brushSize + 6 > 10 THEN brushSize + 6 ELSE 10

\* C13: a captured stroke appends exactly one path to the objects of the
\* active slot and removes none; with the freehand tool the path has the
\* active colour and the brush size, with the eraser tool it is white and
\* has the eraser width.
C13_StrokeUsesActiveTool ==
    [][ CaptureStroke =>
            /\ Len(canvas'.objects) = Len(canvas.objects) + 1
            /\ SubSeq(canvas'.objects, 1, Len(canvas.objects)) = canvas.objects
            /\ LastObject(canvas').type = "path"
            /\ page.activeTool = "freehand" =>
                   /\ LastObject(canvas').stroke = page.activeColor
                   /\ LastObject(canvas').strokeWidth = page.brushSize
            /\ page.activeTool = "eraser" =>
                   /\ LastObject(canvas').stroke = "#FFFFFF"
                   /\ LastObject(canvas').strokeWidth = EraserWidth(page.brushSize) ]_vars

\* C14: on every canvas the page can show, Undo removes exactly the last
\* annotation object when there is at least one, changes nothing when there
\* is none, and never removes the base image.
C14_UndoRemovesLastAnnotation ==
    (Ready /\ canvas.exists) =>
        /\ ImagesOn(UndoCanvas(canvas)) = ImagesOn(canvas)
        /\ IF AnnotationsOn(canvas) # <<>>
           THEN AnnotationsOn(UndoCanvas(canvas)) =
                    SubSeq(AnnotationsOn(canvas), 1, Len(AnnotationsOn(canvas)) - 1)
           ELSE UndoCanvas(canvas) = canvas

\* C15: after any sequence of zoom-in, zoom-out, fit and slot switches the
\* zoom level of the page and the zoom applied to the canvas are within
\* [0.2, 5.0]; the + button at 5.0 gives 5.0 and the - button at 0.2 gives 0.2.
C15_ZoomStaysClamped ==
    /\ page.zoom \in ZoomMin..ZoomMax
    /\ canvas.zoom \in ZoomMin..ZoomMax
    /\ ZoomInLevel(page.zoom) \in ZoomMin..ZoomMax
    /\ ZoomOutLevel(page.zoom) \in ZoomMin..ZoomMax
    /\ page.zoom = ZoomMax => ZoomInLevel(page.zoom) = ZoomMax
    /\ page.zoom = ZoomMin => ZoomOutLevel(page.zoom) = ZoomMin

\* C15 witness: after a switch to slot 1 the user has zoomed in up to the
\* upper limit, which the canvas shows.
C15_Witness ==
    /\ Ready
    /\ page.currentImageIndex = 1
    /\ page.zoom = ZoomMax
    /\ canvas.exists
    /\ canvas.zoom = ZoomMax

C17_ReportShowsSlotRasterInPlace ==
    [][ \A id \in Ids :
            (GenerateReport(id) /\ res' = Response(200, "Report generated successfully")) =>
                \A f \in disk' \ disk :
                    \A i \in 1..NumSlots :
                        /\ HasRaster(sub, i)
                        /\ f.sources[i] = sub.annotatedImagePaths[i] ]_vars

\* The raster recorded at position i of annotatedPaths cannot be shown: its
\* file is missing or its bytes are not an image.
Unavailable(files, p) == ~existsSync(files, p) \/ ~Drawable(DataAt(files, p))

\* C18: a report request on an annotated submission with three raster refs
\* does not fail when the file of a raster is missing or cannot be drawn: the
\* report file is written with the placeholder at that position (and the
\* raster at the others), and the status becomes reported.
C18_MissingRasterGetsPlaceholder ==
    [][ \A id \in Ids :
            (GenerateReport(id) /\ Uploaded /\ ReportRefusal(sub) = "") =>
                /\ res' = Response(200, "Report generated successfully")
                /\ db'[1].status = "reported"
                /\ \E f \in disk' \ disk :
                       /\ f.path = db'[1].reportPath
                       /\ \A i \in 1..NumSlots :
                              f.sources[i] =
                                  IF Unavailable(disk, annotatedPathsOf(sub)[i])
                                  THEN NoPath ELSE annotatedPathsOf(sub)[i] ]_vars

\* C18 witness: a report has been produced whose first position holds the
\* placeholder for a raster file that is missing, whose second holds it for a
\* file that is not an image, and whose third shows the raster.
C18_Witness ==
    /\ Uploaded
    /\ sub.status = "reported"
    /\ res = Response(200, "Report generated successfully")
    /\ \E f \in ReportFiles(disk) :
           /\ f.path = sub.reportPath
           /\ f.sources[1] = NoPath /\ ~existsSync(disk, sub.annotatedImagePaths[1])
           /\ f.sources[2] = NoPath /\ existsSync(disk, sub.annotatedImagePaths[2])
           /\ f.sources[3] = sub.annotatedImagePaths[3]

\* Session s has been answered that its last request, which supplied a
\* document and a raster for slot i (0-based), was saved.
Saved(s, i) ==
    /\ handlers[s].pos = "done"
    /\ handlers[s].response = Response(200, "Annotation saved successfully")
    /\ handlers[s].body.annotatedImageIndex = i

\* C19: the saves of two sessions on one submission are not merged and not
\* locked out: a save that is stored leaves exactly the documents of the
\* array its request supplied, so a document another session has stored at
\* a slot where this array holds null is gone, and its raster refs are those
\* of the document its handler read with its own raster put in.
C19_ConcurrentSavesOverwrite ==
    [][ \A s \in Sessions :
            (AnnotateSave(s) /\ res' = Response(200, "Annotation saved successfully")) =>
                /\ db'[1].annotationData = handlers[s].body.annotationData
                /\ \A i \in 1..NumSlots :
                       HasDocument(db'[1], i) <=>
                           handlers[s].body.annotationData.list[i] # NullDoc
                /\ \A i \in 1..NumSlots :
                       i # handlers[s].body.annotatedImageIndex + 1 =>
                           (HasRaster(db'[1], i) <=> HasRaster(handlers[s].submission, i)) ]_vars

\* C19 witness: both sessions have been answered that their annotation was
\* saved, A for slot 0 and B for slot 1, and the stored submission holds the
\* array of B: the document that A supplied for slot 0 is not in it.
C19_Witness ==
    /\ Saved("A", 0)
    /\ Saved("B", 1)
    /\ sub.annotationData = handlers["B"].body.annotationData
    /\ handlers["A"].body.annotationData.list[1] = docA
    /\ ~HasDocument(sub, 1)
    /\ HasDocument(sub, 2)
    /\ HasRaster(sub, 2)


\* The slots (1-based positions of annotatedImagePaths) holding a raster ref.
RasterSlots(s) == {i \in 1..Len(s.annotatedImagePaths) : HasRaster(s, i)}

\* The step repeats the request just answered: the last request was an
\* annotate call that was stored, and the handler runs again with the same
\* body on the same submission.
AnnotateRetried ==
    /\ req.route = "annotate"
    /\ res = Response(200, "Annotation saved successfully")
    /\ req' = req
    /\ res' = res
    /\ clock' = clock + 1

\* C20: saveAnnotation is safe to retry: a second call with the same
\* arguments on the same submission leaves the status, the annotationData and
\* the set of slots holding a raster ref as the first call left them.
C20_AnnotateRetryIdempotent ==
    [][ AnnotateRetried =>
            /\ db'[1].status = db[1].status
            /\ db'[1].annotationData = db[1].annotationData
            /\ RasterSlots(db'[1]) = RasterSlots(db[1]) ]_vars


\* The URL saveAll loads for slot i: getFileUrl(basePaths[i]).
BaseUrl(i) == getFileUrl(page.submission.originalImagePaths[i + 1])

\* C21: rasterizing the same (base image, annotation document) pair twice
\* yields the same PNG: for every slot, the composite saveAll makes on the
\* canvas of the page (cleared, the base image and the document of the slot
\* drawn, exported) is the one it makes of that image and document on the
\* canvas of a page just opened.
C21_RasterizeTwiceSameBytes ==
    (Ready /\ canvas.exists) =>
        \A i \in 0..(Len(page.submission.originalImagePaths) - 1) :
            toDataURL(ComposedCanvas(ClearAll(canvas), BaseUrl(i), page.annotationData, i))
                = toDataURL(ComposedCanvas(NewCanvas, BaseUrl(i), page.annotationData, i))


\* The raster ref of slot k (1-based) of a submission: null past the end.
RasterRef(s, k) ==
    IF k <= Len(s.annotatedImagePaths) THEN s.annotatedImagePaths[k] ELSE NoPath

\* The step is a run of the annotate handler that stores the submission.
AnnotateStored ==
    /\ req'.route = "annotate"
    /\ res' = Response(200, "Annotation saved successfully")
    /\ clock' = clock + 1

\* C22: a save that carries a raster and the index i of a slot sets the
\* raster ref of slot i to the file it has just written with that raster and
\* leaves the raster ref of every other slot as it was; a save that carries
\* no raster leaves every raster ref as it was.
C22_SaveTouchesOnlyItsRasterRef ==
    [][ AnnotateStored =>
                LET body == req'.body
                    idx == body.annotatedImageIndex IN
                /\ (body.annotatedImageDataUrl # NoUrl /\ isFiniteIndex(idx)) =>
                       /\ RasterRef(db'[1], idx + 1) # NoPath
                       /\ File(RasterRef(db'[1], idx + 1), body.annotatedImageDataUrl, <<>>)
                              \in disk' \ disk
                       /\ Len(db'[1].annotatedImagePaths) >= Len(sub.annotatedImagePaths)
                       /\ \A k \in 1..Len(db'[1].annotatedImagePaths) :
                              k # idx + 1 => RasterRef(db'[1], k) = RasterRef(sub, k)
                /\ body.annotatedImageDataUrl = NoUrl =>
                       /\ db'[1].annotatedImagePaths = sub.annotatedImagePaths
                       /\ disk' = disk ]_vars

\* C22 witness: the last save carried a raster for slot 1 of a submission
\* whose slots 0, 1 and 2 had rasters: slot 1 now refers to the file written
\* by that save, the slots 0 and 2 to the older files.
C22_Witness ==
    /\ Uploaded
    /\ req.route = "annotate"
    /\ req.body.annotatedImageDataUrl # NoUrl
    /\ req.body.annotatedImageIndex = 1
    /\ res = Response(200, "Annotation saved successfully")
    /\ Len(sub.annotatedImagePaths) = NumSlots
    /\ sub.annotatedImagePaths[2] = Path("annotated-images", clock - 1, 1)
    /\ HasRaster(sub, 1) /\ sub.annotatedImagePaths[1].t < clock - 2
    /\ HasRaster(sub, 3) /\ sub.annotatedImagePaths[3].t < clock - 2


\* The step is a run of the generate-report handler that stores the report.
ReportStored ==
    /\ req'.route = "generate-report"
    /\ res' = Response(200, "Report generated successfully")

\* C23: a report request that succeeds changes only the report reference
\* (reportPath and reportUrl), reportGeneratedAt and the status of the
\* submission: its annotationData, annotated raster refs, original image
\* refs and treatmentRecommendations, and every other field, are as before.
C23_ReportChangesOnlyReportFields ==
    [][ ReportStored =>
            /\ db'[1].annotationData = sub.annotationData
            /\ db'[1].annotatedImagePaths = sub.annotatedImagePaths
            /\ db'[1].originalImagePaths = sub.originalImagePaths
            /\ db'[1].treatmentRecommendations = sub.treatmentRecommendations
            /\ db'[1] = [sub EXCEPT !.reportPath = db'[1].reportPath,
                                    !.reportUrl = db'[1].reportUrl,
                                    !.reportGeneratedAt = db'[1].reportGeneratedAt,
                                    !.status = db'[1].status]
            /\ db'[1].status = "reported"
            /\ db'[1].reportPath # NoPath ]_vars

\* C23 witness: a report has just been stored for a submission that keeps
\* the three documents, the three raster refs, the three originals and the
\* recommendations of its last save.
C23_Witness ==
    /\ Uploaded
    /\ req.route = "generate-report"
    /\ res = Response(200, "Report generated successfully")
    /\ sub.status = "reported"
    /\ sub.reportPath = Path("reports", clock - 1, 0)
    /\ sub.reportGeneratedAt = clock - 1
    /\ sub.annotationData = ArrayOf(<<docA, docA, docA>>)
    /\ \A i \in 1..NumSlots : HasRaster(sub, i)
    /\ Len(sub.originalImagePaths) = NumSlots
    /\ sub.treatmentRecommendations = "scaling"


\* C24: while there is no canvas, the editor operations do nothing: the
\* flush of the draft leaves every draft as it is, placing a shape, undo and
\* clear leave the (absent) canvas as it is, and a per-slot step of saveAll
\* that starts then (after the request of the slot before has settled) ends
\* the loop without clearing, loading or sending anything and without
\* changing a draft.
C24_NoCanvasNoOp ==
    [][ ~canvas.exists =>
            /\ persistLocalState(canvas, page.annotationData, page.currentImageIndex)
                   = page.annotationData
            /\ \A shape \in Tools : addShape(canvas, shape, page.activeColor) = canvas
            /\ UndoCanvas(canvas) = canvas
            /\ ClearCanvas(canvas) = canvas
            /\ (saving.pos = "post" /\ saving' # saving) =>
                   /\ saving'.pos = "done"
                   /\ saving'.body = NoBody
                   /\ ~canvas'.exists
                   /\ page'.annotationData = page.annotationData
                   /\ req' \in {req, Request("annotate", saving.body)} ]_vars

\* C24 witness: the user left the page while the save request of slot 0 was
\* in flight; the request was stored, the steps of the slots 1 and 2 found
\* no canvas, and saveAll has ended with the one raster of slot 0 stored.
C24_Witness ==
    /\ ~page.mounted
    /\ ~canvas.exists
    /\ saving.pos = "done"
    /\ saving.saved = {0}
    /\ req.route = "annotate"
    /\ req.body.annotatedImageIndex = 0
    /\ RasterSlots(sub) = {1}


\* The step begins the clear/load/draw/save of a slot in saveAll.
BeginsSlot ==
    /\ saving'.pos = "image"
    /\ saving.pos # "image" \/ saving.i # saving'.i
\* The step sends the save request of a slot.
SendsSave == saving'.pos = "post" /\ saving.pos # "post"
\* The step is the annotate handler running.
HandlesSave == req'.route = "annotate" /\ clock' = clock + 1

\* C25: saveAll processes the slots one after the other in index order: the
\* step of slot 0 begins at the click, the step of slot i+1 only when the
\* save request of slot i has settled, and it begins by clearing the canvas;
\* a save request is sent only by the step of the slot in progress and for
\* that slot, and while it is in flight no other is sent; the server handles
\* only the request in flight, so what is persisted last is the
\* annotationData of the latest slot whose request was stored, the last slot
\* when saveAll ends with that one stored.
C25_SaveAllSequential ==
    [][ /\ BeginsSlot =>
               /\ \/ saving.pos = "idle" /\ saving'.i = 0
                  \/ saving.pos = "post" /\ saving'.i = saving.i + 1
               /\ canvas'.objects = <<>>
        /\ SendsSave =>
               /\ saving.pos = "image"
               /\ saving'.i = saving.i
               /\ saving'.body.annotatedImageIndex = saving.i
        /\ saving.pos = "post" =>
               \/ saving' = saving
               \/ saving' = [saving EXCEPT !.live = FALSE]
               \/ saving'.pos \in {"image", "done"}
        /\ HandlesSave =>
               /\ saving.pos = "post"
               /\ req'.body = saving.body
               /\ db'[1].annotationData = saving.body.annotationData
        /\ (saving.pos = "post" /\ saving'.pos = "done" /\ saving.i \in saving'.saved) =>
               /\ saving.i = Len(page.submission.originalImagePaths) - 1 \/ ~canvas.exists
               /\ db'[1].annotationData = saving.body.annotationData ]_vars

\* C25 witness: saveAll has ended with the requests of the slots 0, 1 and 2
\* stored in that order, the one of slot 2 last, whose annotationData is the
\* persisted one.
C25_Witness ==
    /\ saving.pos = "done"
    /\ saving.saved = AllSlots
    /\ req.route = "annotate"
    /\ req.body.annotatedImageIndex = NumSlots - 1
    /\ sub.annotationData = req.body.annotationData
    /\ \A i \in 1..NumSlots : HasRaster(sub, i)
    /\ sub.annotatedImagePaths[1].t < sub.annotatedImagePaths[2].t
    /\ sub.annotatedImagePaths[2].t < sub.annotatedImagePaths[3].t


\* Every object of the sequence old is in the sequence new, as many times.
Occurrences(objects, o) == Len(SelectSeq(objects, LAMBDA x : x = o))
ContainsAll(new, old) ==
    \A j \in 1..Len(old) : Occurrences(new, old[j]) >= Occurrences(old, old[j])

\* C26: in a session without undo and clear, no step drops an annotation
\* object that is saved for a slot: the objects of the draft of every slot
\* are still in that draft after the step, whatever the order of switches,
\* saveAll and image callbacks, and the annotationData of every save request
\* sent holds, for every slot, the objects of the draft saveAll started from.
C26_SavedObjectsNeverDropped ==
    [][ /\ \A k \in AllSlots :
               ContainsAll(At(page'.annotationData, k).objects,
                           At(page.annotationData, k).objects)
        /\ SendsSave =>
               \A k \in AllSlots :
                   ContainsAll(At(saving'.body.annotationData.list, k).objects,
                               At(saving.latestAnnotations, k).objects) ]_vars


\* The objects of a sequence, as a set.
ObjectsOf(objects) == {objects[j] : j \in 1..Len(objects)}

\* C27: whatever image callbacks are pending and whatever switches the user
\* makes while saveAll runs, the canvas that is exported for slot i holds no
\* image but the base image of slot i and no annotation object but those of
\* the document of slot i, and the document sent for slot i holds no object
\* but those.
C27_CompositeHoldsOnlyItsSlot ==
    [][ (SendsSave /\ saving.live) =>
            LET own == At(saving.latestAnnotations, saving.i).objects
                sent == At(saving'.body.annotationData.list, saving.i).objects
            IN  /\ ObjectsOf(ImagesOn(canvas')) \subseteq {ImageObject(BaseUrl(saving.i))}
                /\ ObjectsOf(Serialized(AnnotationsOn(canvas'))) \subseteq ObjectsOf(own)
                /\ ObjectsOf(sent) \subseteq ObjectsOf(own)
                /\ saving'.body.annotatedImageDataUrl = toDataURL(canvas') ]_vars


\* C28: whenever the submission is reported, its report file is the one
\* built from the annotated raster refs the submission stores, also when an
\* annotate request is handled while the report request is.
C28_ReportMatchesStoredRasters ==
    (Uploaded /\ sub.status = "reported") =>
        \E f \in ReportFiles(disk) :
            /\ f.path = sub.reportPath
            /\ f.sources = ReportSources(annotatedPathsOf(sub), disk)


\* A save request of a slot before the one in progress has failed.
SaveFailed == \E k \in AllSlots : k < saving.i /\ k \notin saving.saved

\* C29: when a save request of saveAll has failed, the page shows the error
\* 'Failed to save annotations. Please try again.' and saveAll does not
\* navigate to the admin list.
C29_FailedSaveIsReported ==
    (saving.pos # "idle" /\ SaveFailed) =>
        /\ page.error = "Failed to save annotations. Please try again."
        /\ saving.pos # "done"


\* The images of the image steps before step s are present.
EarlierImagesPresent(pg, s) ==
    \A k \in 1..NumSlots : k < s => pg.uploadedImages[ImageKeys[k]] # NoFile

\* C30: in the upload wizard, after any sequence of form submit, image
\* select, remove, next and previous actions, currentStep is within 0..4
\* and the images of all image steps before the current one are present; an
\* upload request is sent only with the three images, appended in the order
\* upper, front, lower, and so reaches the server.
C30_WizardStepsKeepImages ==
    /\ [](/\ page.currentStep \in 0..4
          /\ EarlierImagesPresent(page, page.currentStep)
          /\ page.isLoading =>
                 /\ Len(page.formData.files) = NumSlots
                 /\ \A k \in 1..NumSlots : page.formData.files[k] # NoFile
          /\ req.route = "upload" =>
                 /\ Len(req.body.files) = NumSlots
                 /\ \A k \in 1..NumSlots : req.body.files[k] \in ImageFiles(ImageKeys[k]))
    /\ [][ (~page.isLoading /\ page'.isLoading) =>
               page'.formData.files = <<page.uploadedImages["upper"],
                                        page.uploadedImages["front"],
                                        page.uploadedImages["lower"]>> ]_vars

\* C30 witness: the upload request of the wizard was sent from the review
\* step and stored with the three images in the order upper, front, lower.
C30_Witness ==
    /\ ~page.mounted
    /\ page.currentStep = 4
    /\ req.route = "upload"
    /\ req.body.files = <<"upper.png", "front.png", "lower.png">>
    /\ res = Response(201, "Submission uploaded successfully")
    /\ Uploaded
    /\ Len(sub.originalImagePaths) = NumSlots
    /\ \A k \in 1..NumSlots : DataAt(disk, sub.originalImagePaths[k]) = req.body.files[k]

====
